---- MODULE Spec2Model ----
(***************************************************************************)
(* Model of opentimestamps/core/timestamp.py: the Timestamp proof tree,    *)
(* its operation map (OpSet), merge, the serialization codec, the          *)
(* attestation walk and the merkle aggregation (cat_then_unary_op,         *)
(* make_merkle_tree).                                                      *)
(*                                                                         *)
(* Python objects live in `heap`: a sequence of nodes, a node's identity   *)
(* being its index.  A node is [msg, atts, ops]; ops maps an operation to  *)
(* the index of the child, so two entries holding the same index are the   *)
(* same Python object (the aliasing cat_then_unary_op creates).            *)
(***************************************************************************)
EXTENDS Integers, Sequences, FiniteSets, TLC

\* ---------------------------------------------------------------- bounds
MaxNodes    == 5    \* SpecBuild: objects alive at once
MaxApiNodes == 4    \* SpecCodec: objects alive at once
MaxSetNodes == 3    \* Spec: objects alive at once
MaxRoots    == 2    \* timestamps no operation map holds, at once
MaxByte     == 1    \* leaf messages are the one-byte strings <<1>> .. <<MaxByte>>
MaxAtt      == 2    \* attestation payloads are <<1>> .. <<MaxAtt>>
MaxAttested == 1    \* SpecBuild, Spec: attestations in the heap when the caller inserts one more
MaxEncoded  == 2    \* SpecCodec: the same
MaxMsgLen   == 2    \* longest message an operation may produce
MaxLeaves   == 3    \* SpecMerkle: leaves, and the longest list handed to make_merkle_tree
MaxLeafByte == 2    \* SpecMerkle: leaf messages are <<1>> .. <<MaxLeafByte>>
MaxTipNodes == 7    \* SpecMerkle: objects alive at once
MaxPreNodes == 5    \* SpecMerkle: objects alive before the aggregation

VARIABLES heap,     \* the Timestamp objects
          ctx,      \* the bytes of the serialization context
          last      \* the last call: its name and outcome (make_merkle_tree: also
                    \* its arguments and the timestamp it returned)

vars == <<heap, ctx, last>>

\* ------------------------------------------------------------ byte strings
Bytes1 == {<<b>> : b \in 1..MaxByte}

Max(a, b) == IF a >= b THEN a ELSE b

RECURSIVE SeqLess(_, _)
\* Python's bytes ordering: lexicographic, a proper prefix first.
SeqLess(x, y) ==
    IF y = <<>> THEN FALSE
    ELSE IF x = <<>> THEN TRUE
    ELSE IF Head(x) # Head(y) THEN Head(x) < Head(y)
    ELSE SeqLess(Tail(x), Tail(y))

RECURSIVE Flat(_)
\* The concatenation of a sequence of byte strings.
Flat(ss) == IF ss = <<>> THEN <<>> ELSE Head(ss) \o Flat(Tail(ss))

\* ------------------------------------------------- operations (core/op.py)
TagSHA256  == 8
TagAppend  == 240
TagPrepend == 241

OpSHA256 == [tag |-> TagSHA256, arg |-> <<>>]
OpAppend(x) == [tag |-> TagAppend, arg |-> x]
OpPrepend(x) == [tag |-> TagPrepend, arg |-> x]

RECURSIVE MaxRank(_)
\* The nesting rank of a message: a digest byte carries its rank in the high
\* nibble, a leaf byte has rank 0.
MaxRank(m) == IF m = <<>> THEN 0 ELSE Max(Head(m) \div 16, MaxRank(Tail(m)))

RECURSIVE Mix(_, _)
Mix(m, i) == IF i > Len(m) THEN 0 ELSE (i * m[i] + Mix(m, i + 1)) % 16

\* SHA-256 as a deterministic fixed-width digest.  The digest's rank exceeds
\* the rank of every byte of its input, so no message is the digest of a
\* message that contains it (SHA-256 has no such known cycle either).
SHA256(m) == <<16 * (MaxRank(m) + 1) + Mix(m, 1)>>

\* op(msg)
Apply(op, m) ==
    IF op.tag = TagSHA256 THEN SHA256(m)
    ELSE IF op.tag = TagAppend THEN m \o op.arg
    ELSE op.arg \o m

\* A message the model keeps: bounded length, digest bytes within a byte.
MsgOK(m) == Len(m) <= MaxMsgLen /\ \A i \in 1..Len(m) : m[i] < TagAppend

\* Length-prefixed bytes (write_varbytes); lengths stay below 128, so the
\* varint is one byte.
VarBytes(x) == <<Len(x)>> \o x

\* Op.serialize: the tag, then the payload of an append or prepend.
OpSerialize(op) ==
    IF op.tag = TagSHA256 THEN <<op.tag>> ELSE <<op.tag>> \o VarBytes(op.arg)

\* The order of operations: by tag, then by payload.
OpLess(o1, o2) ==
    \/ o1.tag < o2.tag
    \/ o1.tag = o2.tag /\ SeqLess(o1.arg, o2.arg)

\* ------------------------------------------ attestations (core/notary.py)
AttTag == 131
Attestations == {<<k>> : k \in 1..MaxAtt}

AttSerialize(a) == <<AttTag>> \o VarBytes(a)

AttLess(a1, a2) == SeqLess(a1, a2)

\* ------------------------------------------------------------ the heap
NoOps == [o \in {} |-> 0]

\* Timestamp.__init__
Timestamp(m) == [msg |-> m, atts |-> {}, ops |-> NoOps]

Ids(h) == 1..Len(h)
Keys(h, n) == DOMAIN h[n].ops

\* dict.__setitem__
DictSet(h, n, op, v) ==
    [h EXCEPT ![n].ops =
        [o \in (DOMAIN @) \cup {op} |-> IF o = op THEN v ELSE @[o]]]

\* OpSet.__setitem__: [h, ok]; ok = FALSE is the ValueError.
OpSet_setitem(h, n, op, new) ==
    IF op \notin Keys(h, n)
    THEN [h |-> DictSet(h, n, op, new), ok |-> TRUE]
    ELSE IF h[h[n].ops[op]].msg # h[new].msg
    THEN [h |-> h, ok |-> FALSE]
    ELSE [h |-> DictSet(h, n, op, new), ok |-> TRUE]

\* OpSet.add: [h, v], v the child.
OpSet_add(h, n, key) ==
    IF key \in Keys(h, n)
    THEN [h |-> h, v |-> h[n].ops[key]]
    ELSE LET value == Len(h) + 1
             h1 == Append(h, Timestamp(Apply(key, h[n].msg)))
         IN [h |-> OpSet_setitem(h1, n, key, value).h, v |-> value]

RECURSIVE SortedOps(_)
\* sorted(ops): ascending by OpLess.
SortedOps(S) ==
    IF S = {} THEN <<>>
    ELSE LET m == CHOOSE x \in S : \A y \in S : x = y \/ OpLess(x, y)
         IN <<m>> \o SortedOps(S \ {m})

RECURSIVE SortedAtts(_)
\* sorted(attestations): ascending by AttLess.
SortedAtts(S) ==
    IF S = {} THEN <<>>
    ELSE LET m == CHOOSE x \in S : \A y \in S : x = y \/ AttLess(x, y)
         IN <<m>> \o SortedAtts(S \ {m})

\* The children of the nodes of S.
Children(h, S) == UNION {{h[p].ops[o] : o \in Keys(h, p)} : p \in S}

RECURSIVE Closure(_, _, _)
Closure(h, S, k) ==
    LET T == S \cup Children(h, S)
    IN IF k = 0 \/ T = S THEN S ELSE Closure(h, T, k - 1)

\* The nodes of the tree rooted at n.
Reach(h, n) == Closure(h, {n}, Len(h))

\* No node is its own descendant.
Acyclic(h) == \A n \in Ids(h) : n \notin Closure(h, Children(h, {n}), Len(h))

\* ----------------------------------------------------------------- merge
RECURSIVE merge(_, _, _), mergeOps(_, _, _, _)
\* A merge that leaves the attestations of the other timestamp behind.
merge_ops_only(h, self, other) ==
    IF h[self].msg # h[other].msg
    THEN [h |-> h, ok |-> FALSE]
    ELSE mergeOps(h, self, other, SortedOps(Keys(h, other)))

\* Timestamp.merge: [h, ok]; ok = FALSE is the ValueError, raised with the
\* changes made so far kept.
merge(h, self, other) ==
    IF h[self].msg # h[other].msg
    THEN [h |-> h, ok |-> FALSE]
    ELSE LET h1 == [h EXCEPT ![self].atts = @ \cup h[other].atts]
         IN mergeOps(h1, self, other, SortedOps(Keys(h1, other)))

RECURSIVE mergeOps_alias(_, _, _, _)
\* A merge that adopts the other timestamp's child where it has none itself.
mergeOps_alias(h, self, other, todo) ==
    IF todo = <<>> THEN [h |-> h, ok |-> TRUE]
    ELSE LET other_op == Head(todo)
             set == OpSet_setitem(h, self, other_op, h[other].ops[other_op])
             m == merge(h, h[self].ops[other_op], h[other].ops[other_op])
         IN IF other_op \notin Keys(h, self)
            THEN mergeOps_alias(set.h, self, other, Tail(todo))
            ELSE IF ~m.ok THEN m ELSE mergeOps_alias(m.h, self, other, Tail(todo))

\* The loop over other.ops.items().
mergeOps(h, self, other, todo) ==
    IF todo = <<>> THEN [h |-> h, ok |-> TRUE]
    ELSE LET other_op == Head(todo)
             r == OpSet_add(h, self, other_op)
             m == merge(r.h, r.v, h[other].ops[other_op])
         IN IF ~m.ok THEN m ELSE mergeOps(m.h, self, other, Tail(todo))

\* ---------------------------------------------------- cat_then_unary_op
\* An argument of cat_then_unary_op: a Timestamp (its index) or bytes.
ArgTs(n) == [ts |-> TRUE, id |-> n, bytes |-> <<>>]
ArgBytes(m) == [ts |-> FALSE, id |-> 0, bytes |-> m]

\* A cat_then_unary_op that leaves the left timestamp its own child.
cat_then_unary_op_unshared(h, U, la, ra) ==
    LET hl == IF la.ts THEN h ELSE Append(h, Timestamp(la.bytes))
        left == IF la.ts THEN la.id ELSE Len(hl)
        hr == IF ra.ts THEN hl ELSE Append(hl, Timestamp(ra.bytes))
        right == IF ra.ts THEN ra.id ELSE Len(hr)
        left_append == OpSet_add(hr, left, OpAppend(hr[right].msg))
        right_prepend == OpSet_add(left_append.h, right, OpPrepend(hr[left].msg))
        tip == OpSet_add(right_prepend.h, right_prepend.v, U)
    IN [h |-> tip.h, l |-> left, r |-> right, v |-> tip.v, ok |-> TRUE]

\* cat_then_unary_op(unary_op_cls, left, right): [h, l, r, v, ok]; l and r are
\* the (lifted) operands, v the returned timestamp, ok = FALSE the ValueError
\* of the assignment.
cat_then_unary_op(h, U, la, ra) ==
    LET hl == IF la.ts THEN h ELSE Append(h, Timestamp(la.bytes))
        left == IF la.ts THEN la.id ELSE Len(hl)
        hr == IF ra.ts THEN hl ELSE Append(hl, Timestamp(ra.bytes))
        right == IF ra.ts THEN ra.id ELSE Len(hr)
        left_append == OpSet_add(hr, left, OpAppend(hr[right].msg))
        right_prepend == OpSet_add(left_append.h, right, OpPrepend(hr[left].msg))
        set == OpSet_setitem(right_prepend.h, left, OpAppend(hr[right].msg), right_prepend.v)
        tip == OpSet_add(set.h, right_prepend.v, U)
    IN IF set.ok
       THEN [h |-> tip.h, l |-> left, r |-> right, v |-> tip.v, ok |-> TRUE]
       ELSE [h |-> set.h, l |-> left, r |-> right, v |-> 0, ok |-> FALSE]

\* cat_sha256
cat_sha256(h, la, ra) == cat_then_unary_op(h, OpSHA256, la, ra)

\* cat_sha256d
cat_sha256d(h, la, ra) ==
    LET c == cat_sha256(h, la, ra)
        d == OpSet_add(c.h, c.v, OpSHA256)
    IN IF c.ok THEN [c EXCEPT !.h = d.h, !.v = d.v] ELSE c

\* Reference counting: an object made during a call and reachable neither from
\* an object the caller held before it (1..n0) nor from the call's results
\* (keep) is freed, and the indices above it move down.
Live(h, n0, keep) == Closure(h, (1..n0) \cup (keep \ {0}), Len(h))

Renum(h, live, n) == IF n = 0 THEN 0 ELSE Cardinality({g \in live : g <= n})

RECURSIVE LiveSeq(_, _, _)
LiveSeq(h, live, i) ==
    IF i > Len(h) THEN <<>>
    ELSE (IF i \in live THEN <<i>> ELSE <<>>) \o LiveSeq(h, live, i + 1)

Collect(h, live) ==
    LET keep == LiveSeq(h, live, 1)
    IN [k \in 1..Len(keep) |->
          [h[keep[k]] EXCEPT !.ops = [o \in DOMAIN @ |-> Renum(h, live, @[o])]]]

\* ------------------------------------------------------------- the codec
RECURSIVE serialize(_, _), serializeOps(_, _, _, _)
\* A serialize that writes the last attestation of a node in the terminal
\* form although operations follow.
serialize_terminal_att(h, n) ==
    LET sorted_attestations == SortedAtts(h[n].atts)
        na == Len(sorted_attestations)
        head == IF na > 1
                THEN Flat([i \in 1..(na - 1) |->
                             <<255, 0>> \o AttSerialize(sorted_attestations[i])])
                ELSE <<>>
        lastatt == IF na > 0
                   THEN <<0>> \o AttSerialize(sorted_attestations[na])
                   ELSE <<>>
    IN IF h[n].atts = {} /\ Keys(h, n) = {}
       THEN [out |-> <<>>, ok |-> FALSE]
       ELSE IF Keys(h, n) = {}
       THEN [out |-> head \o lastatt, ok |-> TRUE]
       ELSE serializeOps(h, n, SortedOps(Keys(h, n)), head \o lastatt)

\* Timestamp.serialize: [out, ok]; out is what was written to the context,
\* ok = FALSE the ValueError of an empty timestamp (what was written before it
\* stays written).
serialize(h, n) ==
    LET sorted_attestations == SortedAtts(h[n].atts)
        na == Len(sorted_attestations)
        head == IF na > 1
                THEN Flat([i \in 1..(na - 1) |->
                             <<255, 0>> \o AttSerialize(sorted_attestations[i])])
                ELSE <<>>
    IN IF h[n].atts = {} /\ Keys(h, n) = {}
       THEN [out |-> <<>>, ok |-> FALSE]
       ELSE IF Keys(h, n) = {}
       THEN [out |-> head \o <<0>> \o AttSerialize(sorted_attestations[na]),
             ok |-> TRUE]
       ELSE LET lastatt == IF na > 0
                           THEN <<255, 0>> \o AttSerialize(sorted_attestations[na])
                           ELSE <<>>
            IN serializeOps(h, n, SortedOps(Keys(h, n)), head \o lastatt)

\* A loop that marks every operation, the last one too.
serializeOps_marked(h, n, sorted_ops, out) ==
    LET op == Head(sorted_ops)
        stamp == serialize(h, h[n].ops[op])
        written == out \o <<255>> \o OpSerialize(op) \o stamp.out
    IN IF ~stamp.ok THEN [out |-> written, ok |-> FALSE]
       ELSE IF Len(sorted_ops) = 1 THEN [out |-> written, ok |-> TRUE]
       ELSE serializeOps(h, n, Tail(sorted_ops), written)

\* The loops over sorted_ops[0:-1] and the last operation.
serializeOps(h, n, sorted_ops, out) ==
    LET op == Head(sorted_ops)
        stamp == serialize(h, h[n].ops[op])
        mark == IF Len(sorted_ops) > 1 THEN <<255>> ELSE <<>>
        written == out \o mark \o OpSerialize(op) \o stamp.out
    IN IF ~stamp.ok THEN [out |-> written, ok |-> FALSE]
       ELSE IF Len(sorted_ops) = 1 THEN [out |-> written, ok |-> TRUE]
       ELSE serializeOps(h, n, Tail(sorted_ops), written)

\* TimeAttestation.deserialize: [v, pos, ok]
AttDeserialize(bytes, pos) ==
    IF pos + 1 > Len(bytes) \/ bytes[pos] # AttTag
    THEN [v |-> <<>>, pos |-> pos, ok |-> FALSE]
    ELSE LET n == bytes[pos + 1]
         IN IF pos + 1 + n > Len(bytes)
            THEN [v |-> <<>>, pos |-> pos, ok |-> FALSE]
            ELSE [v |-> SubSeq(bytes, pos + 2, pos + 1 + n),
                  pos |-> pos + 2 + n, ok |-> TRUE]

\* Op.deserialize_from_tag: [v, pos, ok]
OpDeserializeFromTag(bytes, pos, tag) ==
    IF tag = TagSHA256 THEN [v |-> OpSHA256, pos |-> pos, ok |-> TRUE]
    ELSE IF tag \notin {TagAppend, TagPrepend} \/ pos > Len(bytes)
    THEN [v |-> OpSHA256, pos |-> pos, ok |-> FALSE]
    ELSE LET n == bytes[pos]
         IN IF pos + n > Len(bytes)
            THEN [v |-> OpSHA256, pos |-> pos, ok |-> FALSE]
            ELSE [v |-> [tag |-> tag, arg |-> SubSeq(bytes, pos + 1, pos + n)],
                  pos |-> pos + 1 + n, ok |-> TRUE]

RECURSIVE deserialize(_, _, _, _), deserializeLoop(_, _, _, _),
          do_tag_or_attestation(_, _, _, _, _)
\* Timestamp.deserialize: [h, pos, v, ok]; v the new timestamp, ok = FALSE a
\* failed read or a ValueError.
deserialize(h, bytes, pos, initial_msg) ==
    deserializeLoop(Append(h, Timestamp(initial_msg)), bytes, pos, Len(h) + 1)

\* do_tag_or_attestation(tag), pos being the next byte to read
do_tag_or_attestation(h, bytes, pos, self, tag) ==
    IF tag = 0
    THEN LET a == AttDeserialize(bytes, pos)
         IN [h |-> IF a.ok THEN [h EXCEPT ![self].atts = @ \cup {a.v}] ELSE h,
             pos |-> a.pos, v |-> self, ok |-> a.ok]
    ELSE LET o == OpDeserializeFromTag(bytes, pos, tag)
         IN IF ~o.ok THEN [h |-> h, pos |-> pos, v |-> self, ok |-> FALSE]
            ELSE LET stamp == deserialize(h, bytes, o.pos, Apply(o.v, h[self].msg))
                     set == OpSet_setitem(stamp.h, self, o.v, stamp.v)
                 IN IF ~stamp.ok
                    THEN [h |-> h, pos |-> pos, v |-> self, ok |-> FALSE]
                    ELSE [h |-> set.h, pos |-> stamp.pos, v |-> self, ok |-> set.ok]

\* tag = ctx.read_bytes(1); while tag == 0xff: ...; do_tag_or_attestation(tag)
deserializeLoop(h, bytes, pos, self) ==
    IF pos > Len(bytes) THEN [h |-> h, pos |-> pos, v |-> self, ok |-> FALSE]
    ELSE IF bytes[pos] = 255
    THEN IF pos + 1 > Len(bytes)
         THEN [h |-> h, pos |-> pos, v |-> self, ok |-> FALSE]
         ELSE LET r == do_tag_or_attestation(h, bytes, pos + 2, self, bytes[pos + 1])
              IN IF ~r.ok THEN r ELSE deserializeLoop(r.h, bytes, r.pos, self)
    ELSE do_tag_or_attestation(h, bytes, pos + 1, self, bytes[pos])

\* ------------------------------------------------------------- the queries
RECURSIVE Timestamp_eq(_, _, _)
\* Timestamp.__eq__
Timestamp_eq(h, a, b) ==
    /\ h[a].msg = h[b].msg
    /\ Keys(h, a) = Keys(h, b)
    /\ \A o \in Keys(h, a) : Timestamp_eq(h, h[a].ops[o], h[b].ops[o])

RECURSIVE all_attestations(_, _), all_attestations_ops(_, _, _)
\* A walk that stops at the timestamp's own attestations.
all_attestations_own(h, n) ==
    LET own == SortedAtts(h[n].atts)
    IN [i \in 1..Len(own) |-> <<h[n].msg, own[i]>>]

\* Timestamp.all_attestations: the pairs <<msg, attestation>> in the order
\* they are yielded (the sets are walked in sorted order here).
all_attestations(h, n) ==
    LET own == SortedAtts(h[n].atts)
    IN [i \in 1..Len(own) |-> <<h[n].msg, own[i]>>]
       \o all_attestations_ops(h, n, SortedOps(Keys(h, n)))

\* The loop over self.ops.values().
all_attestations_ops(h, n, todo) ==
    IF todo = <<>> THEN <<>>
    ELSE all_attestations(h, h[n].ops[Head(todo)])
         \o all_attestations_ops(h, n, Tail(todo))

\* -------------------------------------------------------- make_merkle_tree
RECURSIVE merkle_round(_, _, _, _, _)
\* One pass of the for loop: [h, prev, next, ok]; prev = 0 is None.
merkle_round(h, stamps, i, prev_stamp, next_stamps) ==
    IF i > Len(stamps)
    THEN [h |-> h, prev |-> prev_stamp, next |-> next_stamps, ok |-> TRUE]
    ELSE IF prev_stamp # 0
    THEN LET c == cat_sha256(h, ArgTs(prev_stamp), ArgTs(stamps[i]))
         IN IF ~c.ok
            THEN [h |-> c.h, prev |-> prev_stamp, next |-> next_stamps, ok |-> FALSE]
            ELSE merkle_round(c.h, stamps, i + 1, 0, Append(next_stamps, c.v))
    ELSE merkle_round(h, stamps, i + 1, stamps[i], next_stamps)

RECURSIVE make_merkle_tree(_, _, _)
\* An aggregation that hashes a trailing odd element with itself.
make_merkle_tree_selfhash(h, timestamps, binop) ==
    IF timestamps = <<>> THEN [h |-> h, v |-> 0, ok |-> FALSE]
    ELSE LET r == merkle_round(h, timestamps, 2, timestamps[1], <<>>)
             c == cat_sha256(r.h, ArgTs(r.prev), ArgTs(r.prev))
         IN IF ~r.ok THEN [h |-> r.h, v |-> 0, ok |-> FALSE]
            ELSE IF r.next = <<>> THEN [h |-> r.h, v |-> r.prev, ok |-> TRUE]
            ELSE IF r.prev # 0
            THEN make_merkle_tree(c.h, Append(r.next, c.v), binop)
            ELSE make_merkle_tree(r.h, r.next, binop)

\* make_merkle_tree(timestamps, binop): [h, v, ok]; ok = FALSE a ValueError.
make_merkle_tree(h, timestamps, binop) ==
    IF timestamps = <<>> THEN [h |-> h, v |-> 0, ok |-> FALSE]
    ELSE LET r == merkle_round(h, timestamps, 2, timestamps[1], <<>>)
         IN IF ~r.ok THEN [h |-> r.h, v |-> 0, ok |-> FALSE]
            ELSE IF r.next = <<>> THEN [h |-> r.h, v |-> r.prev, ok |-> TRUE]
            ELSE make_merkle_tree(
                    r.h,
                    IF r.prev # 0 THEN Append(r.next, r.prev) ELSE r.next,
                    binop)

\* ------------------------------------------------------------------ state
Call(op, ok) == [op |-> op, ok |-> ok, arg |-> <<>>, binop |-> "", res |-> 0]

Init ==
    /\ heap = <<>>
    /\ ctx = <<>>
    /\ last = Call("init", TRUE)

\* The timestamps no operation map holds.
Roots(h) == {n \in Ids(h) : \A p \in Ids(h) : \A o \in Keys(h, p) : h[p].ops[o] # n}

RECURSIVE CountAtts(_, _)
CountAtts(h, i) ==
    IF i > Len(h) THEN 0 ELSE Cardinality(h[i].atts) + CountAtts(h, i + 1)

MsgsOK(h) == \A n \in Ids(h) : MsgOK(h[n].msg)

\* Timestamp(msg)
NewTimestamp(m) ==
    /\ heap' = Append(heap, Timestamp(m))
    /\ last' = Call("new", TRUE)
    /\ UNCHANGED ctx

\* n.ops.add(op)
OpsAdd(n, op) ==
    /\ \E r \in {OpSet_add(heap, n, op)} :
          /\ MsgsOK(r.h)
          /\ heap' = r.h
    /\ last' = Call("add", TRUE)
    /\ UNCHANGED ctx

\* n.attestations.add(a)
AddAttestation(n, a, cap) ==
    /\ CountAtts(heap, 1) < cap
    /\ heap' = [heap EXCEPT ![n].atts = @ \cup {a}]
    /\ last' = Call("attest", TRUE)
    /\ UNCHANGED ctx

\* a.merge(b)
Merge(a, b) ==
    /\ \E r \in {merge(heap, a, b)} :
          /\ MsgsOK(r.h)
          /\ heap' = r.h
          /\ last' = Call("merge", r.ok)
    /\ UNCHANGED ctx

ArgMsg(h, x) == IF x.ts THEN h[x.id].msg ELSE x.bytes

\* cat_sha256(left, right), then the objects it leaves unreferenced are freed
Cat(la, ra) ==
    /\ MsgOK(ArgMsg(heap, la) \o ArgMsg(heap, ra))
    /\ \E r \in {cat_sha256(heap, la, ra)} :
         \E h \in {Collect(r.h, Live(r.h, Len(heap), {r.v}))} :
            /\ MsgsOK(h)
            /\ heap' = h
            /\ last' = Call("cat", r.ok)
    /\ UNCHANGED ctx

\* n.ops[op] = c, by the caller.
SetItem(n, op, c) ==
    /\ \E r \in {OpSet_setitem(heap, n, op, c)} :
          /\ heap' = r.h
          /\ last' = Call("setitem", r.ok)
    /\ UNCHANGED ctx

\* n.serialize(ctx), ctx a fresh context
Serialize(n) ==
    /\ \E r \in {serialize(heap, n)} :
          /\ ctx' = r.out
          /\ last' = Call("serialize", r.ok)
    /\ UNCHANGED heap

\* Timestamp.deserialize(ctx, initial_msg): the context is read from its
\* start; a failed call leaves no object behind.
Deserialize(initial_msg) ==
    /\ \E r \in {deserialize(heap, ctx, 1, initial_msg)} :
          /\ r.ok => MsgsOK(r.h)
          /\ heap' = IF r.ok THEN r.h ELSE heap
          /\ last' = Call("deserialize", r.ok)
    /\ ctx' = <<>>

UserOps == {OpSHA256} \cup {OpAppend(x) : x \in Bytes1}

CatArgs(lift) == {ArgTs(n) : n \in Ids(heap)} \cup {ArgBytes(m) : m \in lift}

\* The bounds on a heap.  A heap that closes a cycle (only an assignment by
\* the caller can tie one) is left out: the walks assume a finite tree.
Within(h, nodes) ==
    /\ Len(h) <= nodes
    /\ Cardinality(Roots(h)) <= MaxRoots
    /\ Acyclic(h)

\* A serialization context is decoded (or left) before the heap changes again.
Idle == ctx = <<>>

\* The operations that build timestamps in memory: the caller inserts up to
\* `attested` attestations, hands cat_sha256 timestamps or the byte strings of
\* `lift`, and keeps at most `nodes` objects alive.
Build(attested, lift, nodes) ==
    \/ \E m \in Bytes1 : Idle /\ NewTimestamp(m) /\ Within(heap', nodes)
    \/ \E n \in Ids(heap), op \in UserOps :
          Idle /\ OpsAdd(n, op) /\ Within(heap', nodes)
    \/ \E n \in Ids(heap), a \in Attestations :
          Idle /\ AddAttestation(n, a, attested)
    \/ \E a, b \in Ids(heap) : Idle /\ Merge(a, b) /\ Within(heap', nodes)
    \/ \E la, ra \in CatArgs(lift) : Idle /\ Cat(la, ra) /\ Within(heap', nodes)

NextBuild == Build(MaxAttested, {}, MaxNodes)

SpecBuild == Init /\ [][NextBuild]_vars

\* The codec.
Codec(nodes) ==
    \/ \E n \in Ids(heap) : Serialize(n)
    \/ \E n \in Ids(heap) : Deserialize(heap[n].msg) /\ Within(heap', nodes)

NextCodec ==
    \/ Build(MaxEncoded, Bytes1, MaxApiNodes)
    \/ Codec(MaxApiNodes)

SpecCodec == Init /\ [][NextCodec]_vars

\* Every operation, the caller's own assignments to an operation map included.
Next ==
    \/ Build(MaxAttested, {}, MaxSetNodes)
    \/ Codec(MaxSetNodes)
    \/ \E n, c \in Ids(heap), op \in UserOps :
          Idle /\ SetItem(n, op, c) /\ Within(heap', MaxSetNodes)

Spec == Init /\ [][Next]_vars

\* ------------------------------------------------------- merkle aggregation
Binops == {"cat_sha256", "cat_sha256d"}

Leaves == UNION {[1..k -> {<<b>> : b \in 1..MaxLeafByte}] : k \in 1..MaxLeaves}

\* The lists the caller can hand over: of the timestamps it made itself.
Lists(h) == UNION {[1..k -> Roots(h)] : k \in 1..MaxLeaves}

\* The caller holds a list of fresh timestamps.
InitMerkle ==
    /\ heap \in {[i \in DOMAIN ms |-> Timestamp(ms[i])] : ms \in Leaves}
    /\ ctx = <<>>
    /\ last = Call("init", TRUE)

\* The caller aggregates once: nothing follows make_merkle_tree.
Aggregated == last.op = "make_merkle_tree"

\* make_merkle_tree(timestamps, binop)
MakeMerkleTree(timestamps, binop) ==
    /\ ~Aggregated
    /\ \E r \in {make_merkle_tree(heap, timestamps, binop)} :
         \E live \in {Live(r.h, Len(heap), {r.v})} :
           \E h \in {Collect(r.h, live)} :
              /\ MsgsOK(h)
              /\ Len(h) <= MaxTipNodes
              /\ heap' = h
              /\ last' = [op |-> "make_merkle_tree", ok |-> r.ok,
                          arg |-> timestamps, binop |-> binop,
                          res |-> Renum(r.h, live, r.v)]
    /\ UNCHANGED ctx

\* cat_sha256(left, right) or cat_sha256d(left, right), before the aggregation
CatWith(binop, l, r) ==
    /\ ~Aggregated
    /\ MsgOK(heap[l].msg \o heap[r].msg)
    /\ \E c \in {IF binop = "cat_sha256d"
                  THEN cat_sha256d(heap, ArgTs(l), ArgTs(r))
                  ELSE cat_sha256(heap, ArgTs(l), ArgTs(r))} :
         \E h \in {Collect(c.h, Live(c.h, Len(heap), {c.v}))} :
            /\ MsgsOK(h)
            /\ Len(h) <= MaxPreNodes
            /\ heap' = h
            /\ last' = Call("cat", c.ok)
    /\ UNCHANGED ctx

NextMerkle ==
    \/ \E ts \in Lists(heap), binop \in Binops : MakeMerkleTree(ts, binop)
    \/ \E l, r \in Ids(heap), binop \in Binops : CatWith(binop, l, r)

SpecMerkle == InitMerkle /\ [][NextMerkle]_vars

\* ------------------------------------------------------------- properties
RECURSIVE TreeOf(_, _)
\* The tree under n as a value: a node shared by two entries appears under
\* both.
TreeOf(h, n) ==
    [msg |-> h[n].msg, atts |-> h[n].atts,
     ops |-> [o \in Keys(h, n) |-> TreeOf(h, h[n].ops[o])]]

RECURSIVE NumPaths(_, _, _), NumPathsOps(_, _, _, _)
\* The number of paths of operations that lead from n to t.
NumPaths(h, n, t) ==
    (IF n = t THEN 1 ELSE 0) + NumPathsOps(h, n, t, SortedOps(Keys(h, n)))

NumPathsOps(h, n, t, todo) ==
    IF todo = <<>> THEN 0
    ELSE NumPaths(h, h[n].ops[Head(todo)], t) + NumPathsOps(h, n, t, Tail(todo))

\* No node under n is held by two entries.
IsTree(h, n) == \A t \in Reach(h, n) : NumPaths(h, n, t) = 1

Disjoint(h, a, b) == Reach(h, a) \cap Reach(h, b) = {}

NonEmpty(h, n) == h[n].atts # {} \/ Keys(h, n) # {}

AllNonEmpty(h, n) == \A t \in Reach(h, n) : NonEmpty(h, t)

Count(seq, x) == Cardinality({i \in DOMAIN seq : seq[i] = x})

\* C1: in every tree reachable by Timestamp(msg), ops.add, direct assignment,
\* merge, cat_then_unary_op and deserialize, every entry (op, child) of every
\* node's operation map has child.msg = op(node.msg).
C1_ChildMessageInvariant ==
    \A n \in Ids(heap) : \A op \in Keys(heap, n) :
        heap[heap[n].ops[op]].msg = Apply(op, heap[n].msg)

\* C3: two timestamps compare equal only if they have the same msg, the same
\* attestation set and the same operations with recursively equal children,
\* attestations included at every level.
C3_EqualityComparesAttestations ==
    \A a, b \in Ids(heap) :
        Timestamp_eq(heap, a, b) => TreeOf(heap, a) = TreeOf(heap, b)

\* What a binop makes of the messages of a pair.
Combine(binop, l, r) ==
    IF binop = "cat_sha256d" THEN SHA256(SHA256(l \o r)) ELSE SHA256(l \o r)

RECURSIVE PairUp(_, _)
\* One level: each adjacent pair combined, a trailing odd message carried up.
PairUp(ms, binop) ==
    IF Len(ms) < 2 THEN ms
    ELSE <<Combine(binop, ms[1], ms[2])>> \o PairUp(SubSeq(ms, 3, Len(ms)), binop)

RECURSIVE Rollup(_, _)
\* The message of the tip of the mountain range over the messages ms.
Rollup(ms, binop) ==
    IF Len(ms) = 1 THEN ms[1] ELSE Rollup(PairUp(ms, binop), binop)

\* The messages of the timestamps handed to the last make_merkle_tree.
LeafMsgs == [i \in DOMAIN last.arg |-> heap[last.arg[i]].msg]

\* C5: for every non-empty list S, make_merkle_tree(S) returns the tip got by
\* replacing each adjacent pair with cat_sha256 of the pair and carrying a
\* trailing odd element up unchanged until one element remains; [t] gives t,
\* and [L1, L2, L3] a tip with msg SHA256(SHA256(L1.msg || L2.msg) || L3.msg).
C5_MerkleRollup ==
    (last.op = "make_merkle_tree" /\ last.binop = "cat_sha256") =>
        /\ last.ok
        /\ \A i \in DOMAIN last.arg : last.res \in Reach(heap, last.arg[i])
        /\ Len(last.arg) >= 2 =>
              \E p \in Ids(heap) :
                  /\ OpSHA256 \in Keys(heap, p)
                  /\ heap[p].ops[OpSHA256] = last.res
        /\ heap[last.res].msg = Rollup(LeafMsgs, "cat_sha256")
        /\ Len(last.arg) = 1 => last.res = last.arg[1]
        /\ Len(last.arg) = 3 =>
              heap[last.res].msg =
                  SHA256(SHA256(LeafMsgs[1] \o LeafMsgs[2]) \o LeafMsgs[3])

\* Three different leaves have been aggregated.
C5_Witness ==
    /\ last.op = "make_merkle_tree" /\ last.binop = "cat_sha256" /\ last.ok
    /\ Len(last.arg) = 3
    /\ Cardinality({last.arg[i] : i \in 1..3}) = 3
    /\ LeafMsgs[1] # LeafMsgs[2]
    /\ heap[last.res].msg = SHA256(SHA256(LeafMsgs[1] \o LeafMsgs[2]) \o LeafMsgs[3])

\* C9: make_merkle_tree(timestamps, binop) combines each adjacent pair with
\* the binop passed in, so for a list of at least two timestamps the tip it
\* returns is the rollup computed with that binop.
C9_MerkleUsesBinop ==
    (last.op = "make_merkle_tree" /\ Len(last.arg) >= 2) =>
        /\ last.ok
        /\ heap[last.res].msg = Rollup(LeafMsgs, last.binop)

\* C6: after cat_sha256(L, R) on any timestamps L and R, whatever children
\* they had, L.ops[Append(R.msg)] and R.ops[Prepend(L.msg)] are the same
\* node, its msg is L.msg || R.msg, and the timestamp returned is that node's
\* child under SHA-256, reachable from both L and R.
C6_SharingAfterCat ==
    \A l, r \in Ids(heap) :
        LET c == cat_sha256(heap, ArgTs(l), ArgTs(r))
            ap == OpAppend(heap[r].msg)
            pp == OpPrepend(heap[l].msg)
        IN /\ c.ok
           /\ ap \in Keys(c.h, l)
           /\ pp \in Keys(c.h, r)
           /\ c.h[l].ops[ap] = c.h[r].ops[pp]
           /\ c.h[c.h[l].ops[ap]].msg = heap[l].msg \o heap[r].msg
           /\ OpSHA256 \in Keys(c.h, c.h[l].ops[ap])
           /\ c.h[c.h[l].ops[ap]].ops[OpSHA256] = c.v
           /\ c.h[c.v].msg = SHA256(heap[l].msg \o heap[r].msg)
           /\ c.v \in Reach(c.h, l) \cap Reach(c.h, r)

\* cat_sha256 has joined two different timestamps, one of which has another
\* child besides.
C6_Witness ==
    /\ last.op = "cat" /\ last.ok
    /\ \E l, r \in Ids(heap) :
          /\ l # r
          /\ OpAppend(heap[r].msg) \in Keys(heap, l)
          /\ OpPrepend(heap[l].msg) \in Keys(heap, r)
          /\ heap[l].ops[OpAppend(heap[r].msg)] = heap[r].ops[OpPrepend(heap[l].msg)]
          /\ OpSHA256 \in Keys(heap, heap[l].ops[OpAppend(heap[r].msg)])
          /\ Cardinality(Keys(heap, l)) >= 2

\* C10: for timestamps A and B with the same msg that share no node,
\* A.merge(B) leaves every node of B unchanged and no node of B's tree becomes
\* a node of A's tree, so that a later ops.add on A leaves B unchanged too.
C10_MergeLeavesArgument ==
    \A a, b \in Ids(heap) :
        (heap[a].msg = heap[b].msg /\ Disjoint(heap, a, b)) =>
            LET m == merge(heap, a, b)
            IN /\ m.ok
               /\ Reach(m.h, b) = Reach(heap, b)
               /\ \A n \in Reach(heap, b) : m.h[n] = heap[n]
               /\ Disjoint(m.h, a, b)
               /\ \A n \in Reach(m.h, a), op \in UserOps :
                     \A k \in Reach(heap, b) : OpSet_add(m.h, n, op).h[k] = heap[k]

\* A has been merged with a separate B that has operations and an
\* attestation below its root.
C10_Witness ==
    /\ last.op = "merge" /\ last.ok
    /\ \E a, b \in Roots(heap) :
          /\ a # b
          /\ heap[a].msg = heap[b].msg
          /\ Disjoint(heap, a, b)
          /\ Keys(heap, b) # {}
          /\ \E n \in Reach(heap, b) \ {b} : heap[n].atts # {}
          /\ TreeOf(heap, a) = TreeOf(heap, b)

\* The nodes under t that hold attestation a on message m.
Holders(h, t, m, a) == {n \in Reach(h, t) : h[n].msg = m /\ a \in h[n].atts}

RECURSIVE SumPaths(_, _, _)
\* The paths from t to the nodes of S, added up.
SumPaths(h, t, S) ==
    IF S = {} THEN 0
    ELSE LET n == CHOOSE x \in S : TRUE
         IN NumPaths(h, t, n) + SumPaths(h, t, S \ {n})

\* The messages of the nodes of the heap.
Msgs(h) == {h[n].msg : n \in Ids(h)}

\* C7 as stated: for every timestamp T built by ops.add, attestation
\* insertion, merge and cat_then_unary_op, all_attestations(T) yields exactly
\* one pair (N.msg, a) for every node N under T and attestation a that N
\* holds, and no pair for an attestation that is not under T.
C7_AttestationsExactlyOnce ==
    \A t \in Ids(heap) : \A m \in Msgs(heap), a \in Attestations :
        Count(all_attestations(heap, t), <<m, a>>)
            = Cardinality(Holders(heap, t, m, a))

\* C7, amended: all_attestations(T) yields the pair (N.msg, a) once for every
\* path of operations from T to a node N that holds a: exactly once where N
\* is held by one entry only, once per path where cat_then_unary_op has made
\* N shared; and it yields nothing else.
C7_AttestationsOncePerPath ==
    \A t \in Ids(heap) :
        /\ \A m \in Msgs(heap), a \in Attestations :
              Count(all_attestations(heap, t), <<m, a>>)
                  = SumPaths(heap, t, Holders(heap, t, m, a))
        /\ \A i \in DOMAIN all_attestations(heap, t) :
              Holders(heap, t, all_attestations(heap, t)[i][1],
                      all_attestations(heap, t)[i][2]) # {}
        /\ IsTree(heap, t) =>
              \A n \in Reach(heap, t) : \A a \in heap[n].atts :
                  Count(all_attestations(heap, t), <<heap[n].msg, a>>)
                      = Cardinality(Holders(heap, t, heap[n].msg, a))

\* A node that two entries of one timestamp hold carries an attestation, and
\* the walk from that timestamp yields its pair twice.
C7_Witness ==
    /\ last.op = "attest"
    /\ \E t \in Ids(heap) : \E n \in Reach(heap, t) : \E a \in heap[n].atts :
          /\ NumPaths(heap, t, n) = 2
          /\ Count(all_attestations(heap, t), <<heap[n].msg, a>>) = 2

\* C4 as stated: for any two timestamps A and B with the same msg, each an
\* independent copy, the tree of A after A.merge(B) equals the tree of B
\* after B.merge(A): msg, attestations and operations, at every node.
C4_MergeCommutes ==
    \A a, b \in Ids(heap) :
        (heap[a].msg = heap[b].msg /\ Disjoint(heap, a, b)) =>
            LET ma == merge(heap, a, b)
                mb == merge(heap, b, a)
            IN /\ ma.ok /\ mb.ok
               /\ TreeOf(ma.h, a) = TreeOf(mb.h, b)

\* C4, amended: the same for A and B in which no node is held by two entries
\* (no cat_then_unary_op has made a node shared).
C4_MergeCommutesOnTrees ==
    \A a, b \in Ids(heap) :
        (/\ heap[a].msg = heap[b].msg
         /\ Disjoint(heap, a, b)
         /\ IsTree(heap, a) /\ IsTree(heap, b)) =>
            LET ma == merge(heap, a, b)
                mb == merge(heap, b, a)
            IN /\ ma.ok /\ mb.ok
               /\ TreeOf(ma.h, a) = TreeOf(mb.h, b)

\* Two separate trees with the same msg, different operations and an
\* attestation on one side only: each merge has to create nodes.
C4_Witness ==
    \E a, b \in Ids(heap) :
        /\ heap[a].msg = heap[b].msg
        /\ Disjoint(heap, a, b)
        /\ IsTree(heap, a) /\ IsTree(heap, b)
        /\ Keys(heap, a) \ Keys(heap, b) # {}
        /\ Keys(heap, b) \ Keys(heap, a) # {}
        /\ \E n \in Reach(heap, a) : heap[n].atts # {}
        /\ Len(merge(heap, a, b).h) > Len(heap)
        /\ Len(merge(heap, b, a).h) > Len(heap)
        /\ TreeOf(merge(heap, a, b).h, a) = TreeOf(merge(heap, b, a).h, b)

\* serialize(T), then deserialize of what it wrote, seeded with T.msg, gives
\* a new timestamp equal to T (by Timestamp.__eq__, and with the same
\* attestations at every node), having read every byte.
RoundTrips(h, t) ==
    LET s == serialize(h, t)
        d == deserialize(h, s.out, 1, h[t].msg)
    IN /\ s.ok
       /\ d.ok
       /\ d.pos = Len(s.out) + 1
       /\ d.v \notin Ids(h)
       /\ Timestamp_eq(d.h, d.v, t)
       /\ TreeOf(d.h, d.v) = TreeOf(h, t)

\* C2 as stated: for every timestamp T whose root has at least one
\* attestation or one operation, serialize(T) succeeds and deserialize of the
\* bytes it wrote, seeded with T.msg, returns a timestamp equal to T.
C2_RoundTrip ==
    \A t \in Ids(heap) : NonEmpty(heap, t) => RoundTrips(heap, t)

\* C2, amended: the same for every timestamp T in which every node, not the
\* root alone, has at least one attestation or one operation.
C2_RoundTripAllNonEmpty ==
    \A t \in Ids(heap) : AllNonEmpty(heap, t) => RoundTrips(heap, t)

\* A timestamp with an attested child has been serialized and read back:
\* the copy stands beside it.
C2_Witness ==
    /\ last.op = "deserialize" /\ last.ok
    /\ \E t, d \in Roots(heap) :
          /\ t < d
          /\ AllNonEmpty(heap, t)
          /\ Keys(heap, t) # {}
          /\ Disjoint(heap, t, d)
          /\ TreeOf(heap, d) = TreeOf(heap, t)
          /\ RoundTrips(heap, t)

\* The k-th smallest operation, and attestation, of a set.
OpAt(S, k) == CHOOSE x \in S : Cardinality({y \in S : OpLess(y, x)}) = k - 1

AttAt(S, k) == CHOOSE x \in S : Cardinality({y \in S : AttLess(y, x)}) = k - 1

\* <op> <child encoding> for the k-th smallest operation of node n.
OpItem(h, n, k) ==
    LET op == OpAt(Keys(h, n), k)
    IN OpSerialize(op) \o serialize(h, h[n].ops[op]).out

\* The encoding of node n item by item.
Layout(h, n) ==
    LET na == Cardinality(h[n].atts)
        m == Cardinality(Keys(h, n))
        n1 == IF m > 0 THEN na ELSE na - 1
    IN Flat([k \in 1..n1 |-> <<255, 0>> \o AttSerialize(AttAt(h[n].atts, k))])
       \o Flat([k \in 1..(m - 1) |-> <<255>> \o OpItem(h, n, k)])
       \o (IF m > 0 THEN OpItem(h, n, m)
           ELSE <<0>> \o AttSerialize(AttAt(h[n].atts, na)))

\* C8: for every node with n attestations and m operations, n + m >= 1,
\* serialize writes n' items 0xff 0x00 <attestation> in ascending order
\* (n' = n if m > 0, else n - 1), then m - 1 items 0xff <op> <child encoding>
\* in ascending order, then one terminal item without 0xff: the greatest
\* operation and its child encoding if m > 0, else 0x00 and the greatest
\* attestation.
C8_CanonicalEncoding ==
    \A n \in Ids(heap) :
        AllNonEmpty(heap, n) =>
            /\ serialize(heap, n).ok
            /\ serialize(heap, n).out = Layout(heap, n)

\* A node with an attestation and two operations has been serialized.
C8_Witness ==
    /\ last.op = "serialize" /\ last.ok
    /\ \E n \in Ids(heap) :
          /\ heap[n].atts # {}
          /\ Cardinality(Keys(heap, n)) >= 2
          /\ ctx = serialize(heap, n).out
          /\ ctx = Layout(heap, n)
====
